---------------------------- MODULE Spec2Model ----------------------------
(***************************************************************************)
(* ToonMotion: one reference image and a prompt become a short animation.  *)
(* The model follows the browser's event loop: every action is one task    *)
(* (a click, a timer, a network response, an image load), run to the next  *)
(* suspension point of the async functions it resumes.                     *)
(*                                                                         *)
(*   src/types.ts                    App (handleGenerate, handleStop, ...) *)
(*                                   and the generator                     *)
(*                                   (generateAnimationFrames)             *)
(*   src/services/videoProcessor.ts  normalizer and encoders               *)
(***************************************************************************)
EXTENDS Integers, Sequences, FiniteSets, TLC

VARIABLES
    env,                \* the environment: process.env.API_KEY, window.aistudio
    budget,             \* how many Generate clicks and uploads a session holds
    apiKeyReady,        \* App state (types.ts:59-87) ...
    authError,
    imageFile,
    imagePreview,
    originalDimensions,
    config,
    generation,
    apngUrl,
    abortControllerRef,
    previewIndex,       \* types.ts:82
    pending,            \* callbacks not yet run: mount check, FileReader, Image
    runs,               \* one record per call of handleGenerate
    pool,       \* which raw images a generated-frame URL may decode to
    norm,       \* processGeneratedFrames: the locals of the one call in progress
    hIn,        \* arguments of an encoder called on its own
    hOut        \* what that call did

appVars == <<env, budget, apiKeyReady, authError, imageFile, imagePreview,
             originalDimensions, config, generation, apngUrl,
             abortControllerRef, previewIndex, pending, runs>>
normVars == <<pool, norm>>
encVars == <<hIn, hOut>>
vars == <<appVars, pool, norm, hIn, hOut>>

-----------------------------------------------------------------------------
(* Bounds of the model (not program constants).                            *)

MaxFaults == 1          \* frames of a session that are lost (blank, load error, no context, no blob)
MaxFrameCount == 6      \* the largest frame count selected (the list goes to 12)
MaxGifFrames == 2       \* frames handed to createGif on its own
PixelsPerBuffer == 2    \* pixels of a frame buffer handed to createGif on its own
MaxZipFrames == 99      \* frames handed to createZip on its own
MaxLostFrames == 2      \* generated frames lost in a session that may lose them all
MaxUploads == 2         \* images uploaded in a session that replaces its image
MaxRuns == 2            \* clicks on Generate in a session with several runs
SessionFrames == 2      \* the frame count selected in a session with several runs
MaxEncFrames == 4       \* most frames handed to an encoder alone
MaxFps == 12            \* largest fps handed to an encoder alone
MaxNormFrames == 2      \* longest URL list handed to processGeneratedFrames alone

-----------------------------------------------------------------------------
(* Program constants.                                                      *)

threshold == 240        \* videoProcessor.ts:33  "white" background threshold
alphaFloor == 20        \* videoProcessor.ts:58  alpha a character pixel must exceed
marginDivisor == 20     \* videoProcessor.ts:36  Math.floor(w * 0.05) = w \div 20
defaultDim == 512       \* types.ts:224          targetW/H when no dimensions known

-----------------------------------------------------------------------------
(* Small helpers.                                                          *)

SetMin(S) == CHOOSE m \in S : \A n \in S : m <= n
SetMax(S) == CHOOSE m \in S : \A n \in S : m >= n
Some(x) == <<x>>        \* an optional value: <<>> is "none"
None == <<>>

-----------------------------------------------------------------------------
(* Raw images.  An image is a width, a height, a background pixel and a    *)
(* few pixels that differ from it; a pixel is straight RGBA.               *)

Px(r, g, b, a) == [r |-> r, g |-> g, b |-> b, a |-> a]

White    == Px(255, 255, 255, 255)
Near241  == Px(241, 241, 241, 255)
Edge240  == Px(240, 240, 240, 255)
Dark     == Px(10, 10, 10, 255)
Faint20  == Px(10, 10, 10, 20)
Faint21  == Px(10, 10, 10, 21)
Clear    == Px(0, 0, 0, 0)

Image(w, h, bg, dots) == [w |-> w, h |-> h, bg |-> bg, dots |-> dots]

PixelAt(img, x, y) ==
    IF <<x, y>> \in DOMAIN img.dots THEN img.dots[<<x, y>>] ELSE img.bg

Dots(P, px) == [p \in P |-> px]

(* 3x3 images: the 5% margin is floor(0.15) = 0, so nothing is edge-cropped. *)
SmallPos == {<<0, 0>>, <<1, 1>>, <<2, 1>>, <<2, 2>>}
SmallImages ==
    {Image(3, 3, bg, Dots(P, Dark)) :
        bg \in {White, Edge240, Near241, Clear},
        P \in {Q \in SUBSET SmallPos : Cardinality(Q) <= 2}}
    \cup
    {Image(3, 3, White, Dots({<<1, 1>>}, px)) : px \in {Faint20, Faint21, Near241, Edge240}}

(* 40x20 images: marginX = 2, marginY = 1. *)
LargeXs == {1, 2, 20, 37, 38, 39}
LargeYs == {0, 1, 10, 18, 19}
LargeInner == {2, 20, 38} \X {1, 10, 19}
LargeImages ==
    {Image(40, 20, White, Dots({p}, Dark)) : p \in LargeXs \X LargeYs}
    \cup
    {Image(40, 20, White, Dots({p, q}, Dark)) : p \in LargeInner, q \in LargeInner}
    \cup
    {Image(40, 20, bg, Dots({}, Dark)) : bg \in {White, Edge240, Near241}}

RawImages == SmallImages \cup LargeImages

(* The pool the whole-application specification decodes from: an ordinary  *)
(* subject and a blank (all white) frame.                                  *)
AppImages ==
    { Image(3, 3, White, Dots({<<0, 0>>, <<2, 2>>}, Dark)),
      Image(3, 3, White, Dots({}, Dark)) }

-----------------------------------------------------------------------------
(* processFrameData (videoProcessor.ts:10-90).                             *)

marginX(img) == img.w \div marginDivisor
marginY(img) == img.h \div marginDivisor

(* 1. SAFETY CROP (line 44) *)
InSafetyCrop(img, x, y) ==
    \/ x < marginX(img)
    \/ x > img.w - marginX(img)
    \/ y < marginY(img)
    \/ y > img.h - marginY(img)

(* 2. BACKGROUND REMOVAL (line 54) *)
IsBackground(px) == px.r > threshold /\ px.g > threshold /\ px.b > threshold

(* data[i+3] after the loop of lines 39-66 *)
CleanedAlpha(img, x, y) ==
    IF InSafetyCrop(img, x, y) THEN 0
    ELSE IF IsBackground(PixelAt(img, x, y)) THEN 0
    ELSE PixelAt(img, x, y).a

(* the pixels that update minX/maxX/minY/maxY (lines 58-64) *)
CharacterPixels(img) ==
    {p \in (0 .. img.w - 1) \X (0 .. img.h - 1) :
        /\ ~InSafetyCrop(img, p[1], p[2])
        /\ ~IsBackground(PixelAt(img, p[1], p[2]))
        /\ PixelAt(img, p[1], p[2]).a > alphaFloor}

NoCrop == [ok |-> FALSE, minX |-> 0, minY |-> 0, width |-> 0, height |-> 0]

processFrameData(img, ctxOk) ==
    LET S == CharacterPixels(img)
        minX == SetMin({p[1] : p \in S})
        maxX == SetMax({p[1] : p \in S})
        minY == SetMin({p[2] : p \in S})
        maxY == SetMax({p[2] : p \in S})
    IN  IF ~ctxOk THEN NoCrop                       \* line 19 / 78
        ELSE IF S = {} THEN NoCrop                  \* line 68: !foundPixel
        ELSE [ok |-> TRUE, minX |-> minX, minY |-> minY,
              width |-> maxX - minX,                \* line 70
              height |-> maxY - minY]               \* line 71

PoolImages(tag) == IF tag = "raw" THEN RawImages ELSE AppImages

(* processFrameData of every image of the model, computed once. *)
CropOf == [img \in RawImages \cup AppImages |-> processFrameData(img, TRUE)]

-----------------------------------------------------------------------------
(* processGeneratedFrames (videoProcessor.ts:96-163) as a coroutine: the   *)
(* record holds its locals, pc is the suspension point it waits at.        *)
(*   "load"     await of the image's onload/onerror (lines 107-159)        *)
(*   "toBlob"   await of finalCanvas.toBlob inside onload (line 138)       *)
(*   "returned" return frames (line 162)                                   *)
(*   "hung"     onload threw before resolve(): the awaited promise of      *)
(*              line 107 never settles                                     *)
(* lastImg, lastCrop, divByZero and fate record what the last onload saw;  *)
(* the code keeps none of them.                                            *)

Url(r, k) == [run |-> r, frame |-> k]

NoDraw == [painted |-> FALSE]

NormIdle ==
    [urls |-> <<>>, targetWidth |-> 0, targetHeight |-> 0, zoom |-> 0,
     i |-> 0, frames |-> <<>>, pc |-> "idle", cur |-> NoDraw,
     lastImg |-> None, lastCrop |-> NoCrop, divByZero |-> FALSE, fate |-> <<>>]

processGeneratedFrames(imageUrls, targetWidth, targetHeight, zoom) ==
    [NormIdle EXCEPT !.urls = imageUrls, !.targetWidth = targetWidth,
                     !.targetHeight = targetHeight, !.zoom = zoom,
                     !.pc = IF Len(imageUrls) = 0 THEN "returned" ELSE "load"]

(* resolve() (lines 152, 156), then the for loop's i++ and test (line 104) *)
NormResolve(n, what) ==
    [n EXCEPT !.i = n.i + 1,
              !.fate = Append(n.fate, what),
              !.cur = NoDraw,
              !.pc = IF n.i + 1 < Len(n.urls) THEN "load" ELSE "returned"]

(* img.onerror (lines 154-157) *)
NormOnerror(n) == NormResolve(n, "decodeError")

(* img.onload up to its await (lines 110-138).  drawImage of line 135 is   *)
(* given the cropped canvas as its source.  With height = 0 the scale of   *)
(* line 125 is a division by zero and the destination rectangle is not     *)
(* finite; with width = 0 or height = 0 the source canvas has a zero       *)
(* dimension.  The HTML standard returns silently on non-finite arguments  *)
(* before it looks at the source, and throws InvalidStateError for a       *)
(* zero-dimension source canvas; engines that convert the source argument  *)
(* first throw in both cases (sourceCheckedFirst).                         *)
NormOnload(n, img, ctxOk, finalCtxOk, sourceCheckedFirst) ==
    LET processed == IF ctxOk THEN CropOf[img] ELSE processFrameData(img, FALSE)
        divZero == processed.height = 0                        \* line 125
        zeroCanvas == processed.width = 0 \/ processed.height = 0
        throws == zeroCanvas /\ (sourceCheckedFirst \/ ~divZero)
        seen == [n EXCEPT !.lastImg = Some(img), !.lastCrop = processed,
                          !.divByZero = FALSE]
    IN  IF finalCtxOk /\ processed.ok                           \* line 119
        THEN IF throws
             THEN [seen EXCEPT !.divByZero = divZero, !.pc = "hung",
                               !.fate = Append(n.fate, "threw")]
             ELSE [seen EXCEPT !.divByZero = divZero, !.pc = "toBlob",
                               !.cur = [painted |-> ~zeroCanvas]]
        ELSE NormResolve(seen, "empty")

(* NewFrame with the survivors renumbered densely *)
NewFrameRenumbered(n) ==
    [blob |-> Url(-1, n.i),
     index |-> Len(n.frames),
     pixelBuffer |-> [src |-> n.urls[n.i + 1], painted |-> n.cur.painted],
     width |-> n.targetWidth,
     height |-> n.targetHeight]

(* the rest of onload (lines 138-152) *)
NewFrame(n) ==
    [blob |-> Url(-1, n.i),
     index |-> n.i,
     pixelBuffer |-> [src |-> n.urls[n.i + 1], painted |-> n.cur.painted],
     width |-> n.targetWidth,
     height |-> n.targetHeight]

NormToBlob(n, blobOk) ==
    IF blobOk                                                   \* line 141
    THEN NormResolve([n EXCEPT !.frames = Append(n.frames, NewFrame(n))], "kept")
    ELSE NormResolve(n, "noBlob")

-----------------------------------------------------------------------------
(* createApng (videoProcessor.ts:165-193).                                 *)

(* Math.round(a / b) for integers a >= 0, b > 0: floor(a/b + 1/2) *)
MathRound(a, b) == (2 * a + b) \div (2 * b)

NoCall ==
    [done |-> FALSE, threw |-> FALSE, error |-> "", upngLoaded |-> FALSE,
     called |-> FALSE, imgs |-> <<>>, w |-> 0, h |-> 0, cnum |-> 0, dels |-> <<>>]

Thrown(msg, loaded) ==
    [NoCall EXCEPT !.done = TRUE, !.threw = TRUE, !.error = msg, !.upngLoaded = loaded]

(* lines 173-181: frames made by processGeneratedFrames always carry a     *)
(* pixelBuffer, so the test of line 178 passes for each of them.           *)
ApngBuffers(frames) == [k \in 1 .. Len(frames) |-> frames[k].pixelBuffer]

(* ApngDelays with the delay truncated instead of rounded *)
ApngDelaysTruncated(buffers, fps) ==
    [k \in 1 .. Len(buffers) |-> 1000 \div fps]

ApngDelays(buffers, fps) ==
    [k \in 1 .. Len(buffers) |-> MathRound(1000, fps)]          \* lines 183-184

createApng(frames, fps, upngLoaded, encodeThrows) ==
    IF ~upngLoaded THEN Thrown("UPNG library not loaded", FALSE)         \* line 166
    ELSE IF Len(frames) = 0 THEN Thrown("No frames to encode", TRUE)     \* line 169
    ELSE LET buffers == ApngBuffers(frames)
             call == [NoCall EXCEPT !.done = TRUE, !.upngLoaded = TRUE,
                                    !.called = TRUE,             \* line 187
                                    !.imgs = buffers,
                                    !.w = frames[1].width,
                                    !.h = frames[1].height,
                                    !.cnum = 0,
                                    !.dels = ApngDelays(buffers, fps)]
         IN  IF encodeThrows                                     \* lines 189-192
             THEN [call EXCEPT !.threw = TRUE, !.error = "Failed to encode APNG."]
             ELSE call

-----------------------------------------------------------------------------
(* createGif (videoProcessor.ts:198-268) as a coroutine.  A frame's        *)
(* pixelBuffer is the address of its buffer in a heap of buffers; a buffer *)
(* is a sequence of pixels.                                                *)
(*   "fetch"     await of the worker script (lines 206-207)                *)
(*   "render"    render() was called, 'finished' is awaited (line 262)     *)
(*   "resolved"  resolve(blob) (line 259)                                  *)
(*   "rejected"  the async function threw (line 200) or reject(e) (265)    *)

alphaKey == 128                                                  \* videoProcessor.ts:237

KeyPixelInclusive(px) ==
    IF px.a <= alphaKey THEN Px(255, 0, 255, 255) ELSE Px(px.r, px.g, px.b, 255)

(* lines 231-250, one pixel *)
KeyPixel(px) ==
    IF px.a < alphaKey
    THEN Px(255, 0, 255, 255)                                    \* lines 239-242
    ELSE Px(px.r, px.g, px.b, 255)                               \* lines 245-248

(* lines 228-250: newBuffer, filled from originalBuffer *)
ChromaKey(buffer) == [i \in DOMAIN buffer |-> KeyPixel(buffer[i])]

GifFrameBufferInPlace(heap, addr) ==
    [heap |-> [heap EXCEPT ![addr] = ChromaKey(heap[addr])], data |-> addr]

(* lines 228-229: originalBuffer is a view of the frame's buffer, newBuffer *)
(* a buffer of its own; the keyed pixels are written to newBuffer           *)
GifFrameBuffer(heap, addr) ==
    [heap |-> Append(heap, ChromaKey(heap[addr])), data |-> Len(heap) + 1]

GifIdle ==
    [pc |-> "idle", heap |-> <<>>, added |-> <<>>, workerUrl |-> "none", error |-> ""]

(* the loop of lines 222-255 from frame k on *)
RECURSIVE GifAddFrames(_, _, _, _)
GifAddFrames(g, frames, fps, k) ==
    IF k > Len(frames) THEN g
    ELSE LET frame == frames[k] IN
         IF frame.pixelBuffer # 0 /\ frame.width # 0 /\ frame.height # 0    \* line 223
         THEN LET made == GifFrameBuffer(g.heap, frame.pixelBuffer)
              IN  GifAddFrames(
                    [g EXCEPT !.heap = made.heap,
                              !.added = Append(g.added,
                                   [data |-> made.data, width |-> frame.width,
                                    height |-> frame.height,
                                    delay |-> [num |-> 1000, den |-> fps]])],   \* line 253
                    frames, fps, k + 1)
         ELSE GifAddFrames(g, frames, fps, k + 1)

(* lines 198-206: the call, up to the fetch *)
createGif(frames, fps, heap, gifLoaded) ==
    IF ~gifLoaded
    THEN [GifIdle EXCEPT !.pc = "rejected", !.heap = heap,
                         !.error = "GIF.js library not loaded"]  \* lines 199-201
    ELSE [GifIdle EXCEPT !.pc = "fetch", !.heap = heap]

(* the fetch answers: lines 206-262, or the catch of lines 263-266 *)
GifFetched(g, frames, fps, fetchOk, renderThrows) ==
    IF ~fetchOk THEN [g EXCEPT !.pc = "rejected", !.error = "fetch"]
    ELSE LET made == [g EXCEPT !.workerUrl = "live"]             \* line 209
         IN  IF Len(frames) = 0                                  \* line 214: frames[0].width
             THEN [made EXCEPT !.pc = "rejected", !.error = "TypeError"]
             ELSE LET added == GifAddFrames(made, frames, fps, 1)
                  IN  IF renderThrows
                      THEN [added EXCEPT !.pc = "rejected", !.error = "render"]
                      ELSE [added EXCEPT !.pc = "render"]

(* gif.on('finished') (lines 257-260) *)
GifOnFinished(g) == [g EXCEPT !.workerUrl = "revoked", !.pc = "resolved"]

-----------------------------------------------------------------------------
(* Error messages.  A message is the sequence of its parts, cut where the  *)
(* code's templates and includes() tests cut it; includes(x) holds when x  *)
(* is one of the parts.                                                    *)

MsgAborted      == <<"Generation aborted by user.">>                 \* types.ts:762,775
MsgNoKey        == <<"API Key not found", ". Please select an API Key.">>   \* :653
MsgNoCandidates == <<"Gemini API returned no candidates.">>          \* :710
MsgFinish(reason) == <<"Model stopped generation: ", reason>>        \* :714
MsgRefusal      == <<"Model Refusal: ", "I can't help with that", "...">>   \* :720
MsgNoData       == <<"No image data generated.">>                    \* :724
NoError == <<>>

Includes(msg, part) == \E k \in DOMAIN msg : msg[k] = part

-----------------------------------------------------------------------------
(* generateSingleFrame (types.ts:661-744).  A request is "none" (not       *)
(* made), "pending" (the remote call is in flight), "ok", or the response  *)
(* that made it throw.                                                     *)

Responses ==
    {"ok", "noCandidates", "finishSAFETY", "finishMAX_TOKENS", "textRefusal", "noData"}

(* getAiClient (types.ts:651-656) throws before any remote call *)
getAiClientUnchecked(envKey) == "client"

getAiClient(envKey) == IF envKey THEN "client" ELSE "throws"

(* the state of the promise right after the call of line 769 *)
generateSingleFrame(envKey) ==
    IF getAiClient(envKey) = "throws" THEN "noKey" ELSE "pending"

Rejected(status) == status \notin {"none", "pending", "ok", "discarded"}

(* the error a rejected request carries (lines 653, 709-725) *)
ErrorOf(status) ==
    CASE status = "noKey"            -> MsgNoKey
      [] status = "noCandidates"     -> MsgNoCandidates
      [] status = "finishSAFETY"     -> MsgFinish("SAFETY")
      [] status = "finishMAX_TOKENS" -> MsgFinish("MAX_TOKENS")
      [] status = "textRefusal"      -> MsgRefusal
      [] status = "noData"           -> MsgNoData

(* a remote call was made for the request (line 687) *)
RemoteCallMade(status) == status \notin {"none", "noKey"}

-----------------------------------------------------------------------------
(* generateAnimationFrames (types.ts:750-782) as a coroutine.              *)
(*   "stagger"   await of the setTimeout of line 768, before request j     *)
(*   "awaitAll"  await Promise.all(batchPromises) (line 772)               *)
(*   "returned"  return urls (line 781)                                    *)
(*   "threw"     the call rejected with `error`                            *)
(* batch is batchPromises (the requests' indexes in push order); order is  *)
(* the order in which the requests of the batch resolved, which the code   *)
(* does not keep.                                                          *)

batchSize == 3                                                   \* types.ts:758

Min2(a, b) == IF a < b THEN a ELSE b

GenIdle ==
    [id |-> 0, count |-> 0, i |-> 0, j |-> 0, req |-> <<>>, batch |-> <<>>,
     order |-> <<>>, urls |-> <<>>, pc |-> "idle", error |-> NoError]

(* req is indexed 1..count: req[k + 1] is the request for frame k *)
ReqOf(g, k) == g.req[k + 1]

GenThrow(g, msg) == [g EXCEPT !.pc = "threw", !.error = msg]

(* the top of the for loop of line 760, entered with i already set *)
GenLoopTop(g, aborted) ==
    IF g.i < g.count
    THEN IF aborted THEN GenThrow(g, MsgAborted)               \* lines 761-763
         ELSE [g EXCEPT !.j = g.i, !.batch = <<>>, !.order = <<>>,
                        !.pc = "stagger"]                       \* line 768
    ELSE [g EXCEPT !.pc = "returned"]                           \* line 781

generateAnimationFrames(id, count, aborted) ==
    GenLoopTop([GenIdle EXCEPT !.id = id, !.count = count,
                               !.req = [k \in 1 .. count |-> "none"]],
               aborted)

(* Promise.all's results in completion order *)
BatchResultsByCompletion(g) == [k \in 1 .. Len(g.order) |-> Url(g.id, g.order[k])]

(* batchResults: Promise.all's results, in the order of batchPromises *)
BatchResults(g) == [k \in 1 .. Len(g.batch) |-> Url(g.id, g.batch[k])]

(* after line 772 resolved: lines 774-779 and the next turn of the loop *)
GenAfterBatch(g, aborted) ==
    IF aborted THEN GenThrow(g, MsgAborted)                     \* lines 774-776
    ELSE GenLoopTop([g EXCEPT !.urls = g.urls \o BatchResults(g),   \* line 778
                              !.i = g.i + batchSize],
                    aborted)

BatchRejected(g) == {k \in DOMAIN g.batch : Rejected(ReqOf(g, g.batch[k]))}
(* a Promise.all that resolves as soon as one request of the batch has *)
BatchAnyOk(g) == \E k \in DOMAIN g.batch : ReqOf(g, g.batch[k]) = "ok"
BatchAllOk(g) == \A k \in DOMAIN g.batch : ReqOf(g, g.batch[k]) = "ok"

(* Promise.all called on batchPromises (line 772): promises that already   *)
(* rejected have their reactions queued in array order, so the first of    *)
(* them in the array rejects the whole.                                    *)
GenPromiseAll(g, aborted) ==
    IF BatchRejected(g) # {}
    THEN GenThrow(g, ErrorOf(ReqOf(g, g.batch[SetMin(BatchRejected(g))])))
    ELSE IF BatchAllOk(g) THEN GenAfterBatch(g, aborted)
    ELSE [g EXCEPT !.pc = "awaitAll"]

(* the timer of line 768 fires: request j is made (line 769), then either  *)
(* the next timer is awaited or Promise.all is.                            *)
GenTimer(g, envKey, aborted) ==
    LET pushed == [g EXCEPT !.req[g.j + 1] = generateSingleFrame(envKey),
                            !.batch = Append(g.batch, g.j),
                            !.j = g.j + 1]
    IN  IF pushed.j < Min2(g.i + batchSize, g.count)                \* line 766
        THEN pushed
        ELSE GenPromiseAll(pushed, aborted)

(* the remote call of request k answers; once the call has thrown nothing  *)
(* holds the request's promise and its outcome is discarded                *)
GenSettle(g, k, response, aborted) ==
    LET settled == [g EXCEPT !.req[k + 1] = response,
                             !.order = IF response = "ok" THEN Append(g.order, k)
                                       ELSE g.order]
    IN  IF g.pc = "threw" THEN [g EXCEPT !.req[k + 1] = "discarded"]
        ELSE IF g.pc # "awaitAll" THEN settled
        ELSE IF response # "ok" THEN GenThrow(settled, ErrorOf(response))
        ELSE IF BatchAllOk(settled) THEN GenAfterBatch(settled, aborted)
        ELSE settled

InFlight(g) == {k \in 0 .. g.count - 1 : ReqOf(g, k) = "pending"}
Issued(g) == {k \in 0 .. g.count - 1 : ReqOf(g, k) # "none"}

-----------------------------------------------------------------------------
(* createZip (videoProcessor.ts:273-288): the names of the files written.  *)

RECURSIVE Digits(_)
Digits(n) == IF n < 10 THEN <<n>> ELSE Append(Digits(n \div 10), n % 10)

(* (index + 1).toString().padStart(2, '0') *)
PadStart2(n) == IF Len(Digits(n)) < 2 THEN <<0>> \o Digits(n) ELSE Digits(n)

(* the same loop naming each file after the frame's original index *)
ZipFilesByOriginalIndex(frames) ==
    [k \in 1 .. Len(frames) |->
        [folder |-> "frames", name |-> <<"frame_", PadStart2(frames[k].index + 1), ".png">>,
         data |-> frames[k].blob]]

ZipFiles(frames) ==
    [k \in 1 .. Len(frames) |->
        [folder |-> "frames", name |-> <<"frame_", PadStart2(k), ".png">>,
         data |-> frames[k].blob]]                              \* lines 281-285


ZipIdle == [pc |-> "idle", files |-> <<>>, error |-> ""]

(* createZip up to the await of zip.generateAsync (lines 273-287) *)
createZip(frames, zipLoaded) ==
    IF ~zipLoaded
    THEN [ZipIdle EXCEPT !.pc = "rejected", !.error = "JSZip library not loaded"]
    ELSE [ZipIdle EXCEPT !.pc = "generate", !.files = ZipFiles(frames)]

(* zip.generateAsync settles (line 287) *)
ZipOnGenerated(z, ok) ==
    IF ok THEN [z EXCEPT !.pc = "resolved"]
    ELSE [z EXCEPT !.pc = "rejected", !.error = "generateAsync"]

(* a JSZip folder holds one entry per file name: a later file() call with  *)
(* a name already present replaces the entry                              *)
FolderNames(files) == {files[k].name : k \in DOMAIN files}

-----------------------------------------------------------------------------
(* App state (types.ts:58-87).                                             *)
(* Files are numbered from 1; 0 stands for null, and for an undefined URL. *)
(* A status message or error is the text the code writes, in English:      *)
(*   "generating"   line 209      "normalizing"  line 221                  *)
(*   "packaging"    line 237      "done"         line 268                  *)
(*   "stopped"      line 173                                               *)

MsgUserStopped == <<"the user stopped the generation">>         \* types.ts:174
MsgSafetyFilter == <<"the safety filter was triggered">>        \* types.ts:306

GenerationInit ==                                               \* types.ts:75-79
    [isGenerating |-> FALSE, progress |-> 0, statusMessage |-> "",
     error |-> NoError, frames |-> None, videoUrl |-> 0, gifUrl |-> 0, zipUrl |-> 0]

ConfigInit == [prompt |-> "", fps |-> 8, frameCount |-> 6, zoom |-> 100]   \* :67-73

NoDims == [width |-> 0, height |-> 0]
(* the natural dimensions of an uploaded file *)
DimsOf(file) == [width |-> 100 * file + 200, height |-> 100 * file + 300]

(* checkApiKey (types.ts:784-797) *)
checkApiKey(e) == e.apiKey \/ e.aistudio = "selected"

(* one call of handleGenerate: where it is suspended, the values its       *)
(* closure captured at the click, its AbortController's signal, and the    *)
(* coroutines it awaits.  end, stopPhase and issuedAtStop record how it    *)
(* ended and where a stop found it; the code keeps none of them.           *)
RunIdle ==
    [id |-> 0, pc |-> "idle", cap |-> [imagePreview |-> 0, imageFile |-> 0, dims |-> NoDims,
                             config |-> ConfigInit],
     aborted |-> FALSE, gen |-> GenIdle, norm |-> NormIdle, apng |-> NoCall,
     workerUrl |-> "none", gifUrl |-> 0, zip |-> <<>>,
     end |-> "", stopPhase |-> "", issuedAtStop |-> {}, settledAtStop |-> FALSE]

AppInit(b) ==
    /\ env \in [apiKey : BOOLEAN, aistudio : {"absent", "unselected", "selected"}]
    /\ budget = b
    /\ apiKeyReady = FALSE
    /\ authError = ""
    /\ imageFile = 0
    /\ imagePreview = 0
    /\ originalDimensions = NoDims
    /\ config = ConfigInit
    /\ generation = GenerationInit
    /\ apngUrl = 0
    /\ abortControllerRef = 0
    /\ previewIndex = 0
    /\ pending = [mount |-> TRUE, reader |-> {}, image |-> {}]
    /\ runs = [r \in 1 .. b.runs |-> RunIdle]

(* the application is not part of the specification *)
AppUnused ==
    /\ env = [apiKey |-> TRUE, aistudio |-> "absent"]
    /\ budget = [runs |-> 0, uploads |-> 0, files |-> 0, faults |-> 0]
    /\ apiKeyReady = FALSE
    /\ authError = ""
    /\ imageFile = 0
    /\ imagePreview = 0
    /\ originalDimensions = NoDims
    /\ config = ConfigInit
    /\ generation = GenerationInit
    /\ apngUrl = 0
    /\ abortControllerRef = 0
    /\ previewIndex = 0
    /\ pending = [mount |-> FALSE, reader |-> {}, image |-> {}]
    /\ runs = <<>>

-----------------------------------------------------------------------------
(* handleGenerate (types.ts:179-316).  Its code after each await is an     *)
(* operator on a "world": the App state it may write and its own record.   *)
(* lib says which of the script-tag libraries are loaded and whether the   *)
(* APNG encoder throws.                                                    *)

World(r) ==
    [apiKeyReady |-> apiKeyReady, authError |-> authError, generation |-> generation,
     apngUrl |-> apngUrl, abortControllerRef |-> abortControllerRef, run |-> runs[r]]

Libs == [upng : BOOLEAN, encodeThrows : BOOLEAN, gif : BOOLEAN, zip : BOOLEAN]
AllLoaded == [upng |-> TRUE, encodeThrows |-> FALSE, gif |-> TRUE, zip |-> TRUE]

(* the library states a continuation can tell apart: the one that runs on *)
(* from the normalizer's return reads all of them, the ones inside         *)
(* createGif only window.JSZip, the others none                            *)
LibsSeenAfter(n) == IF n.pc = "returned" THEN Libs ELSE {AllLoaded}
ZipLibs == {lib \in Libs : lib.upng /\ ~lib.encodeThrows /\ lib.gif}

Ended(w, how) == [w EXCEPT !.run.pc = "ended", !.run.end = how]

CatchWithoutSafety(w, msg) ==
    IF msg = MsgAborted THEN Ended(w, "aborted")
    ELSE IF Includes(msg, "API Key not found")
    THEN Ended([w EXCEPT !.authError = "keyLost",
                         !.apiKeyReady = FALSE,
                         !.generation.isGenerating = FALSE,
                         !.generation.statusMessage = ""], "keyLost")
    ELSE Ended([w EXCEPT !.generation.isGenerating = FALSE,
                         !.generation.error = msg], "generic")

(* the catch block (lines 274-315); the messages of this model hold no     *)
(* braces, so the JSON parsing of lines 285-295 leaves them as they are.   *)
Catch(w, msg) ==
    IF msg = MsgAborted THEN Ended(w, "aborted")                 \* lines 275-278
    ELSE IF Includes(msg, "API Key not found")                   \* lines 298-301
    THEN Ended([w EXCEPT !.authError = "keyLost",
                         !.apiKeyReady = FALSE,
                         !.generation.isGenerating = FALSE,
                         !.generation.statusMessage = ""], "keyLost")
    ELSE IF Includes(msg, "SAFETY")                              \* lines 302-307
    THEN Ended([w EXCEPT !.generation.isGenerating = FALSE,
                         !.generation.error = MsgSafetyFilter], "safety")
    ELSE Ended([w EXCEPT !.generation.isGenerating = FALSE,      \* lines 308-314
                         !.generation.error = msg], "generic")

(* lines 264-272 *)
Finish(w, zipUrl) ==
    Ended([w EXCEPT !.generation.isGenerating = FALSE,
                    !.generation.progress = 100,
                    !.generation.statusMessage = "done",
                    !.generation.videoUrl = w.run.id,
                    !.generation.gifUrl = w.run.gifUrl,
                    !.generation.zipUrl = zipUrl], "done")

(* lines 255-262: createZip up to its await (videoProcessor.ts:274-287) *)
StartZip(w, lib) ==
    IF ~lib.zip THEN Finish(w, 0)
    ELSE [w EXCEPT !.run.zip = ZipFiles(w.run.norm.frames), !.run.pc = "zip"]

(* lines 246-253: createGif up to its fetch (videoProcessor.ts:199-206) *)
StartGif(w, lib) ==
    IF ~lib.gif THEN StartZip(w, lib)
    ELSE [w EXCEPT !.run.pc = "gifFetch"]

(* lines 234-253 with the GIF step entered whatever createApng did *)
AfterNormalizeUngated(w, lib) ==
    LET frames == w.run.norm.frames
        call == createApng(frames, w.run.cap.config.fps, lib.upng, lib.encodeThrows)
        shown == [w EXCEPT !.generation.progress = 80,
                           !.generation.statusMessage = "packaging",
                           !.generation.frames = Some(frames),
                           !.run.apng = call]
    IN  StartGif([shown EXCEPT !.apngUrl = IF call.threw THEN 0 ELSE w.run.id], lib)

(* lines 234-245 *)
AfterNormalize(w, lib) ==
    LET frames == w.run.norm.frames
        call == createApng(frames, w.run.cap.config.fps, lib.upng, lib.encodeThrows)
        shown == [w EXCEPT !.generation.progress = 80,
                           !.generation.statusMessage = "packaging",
                           !.generation.frames = Some(frames),
                           !.run.apng = call]
    IN  IF call.threw THEN Catch(shown, <<call.error>>)
        ELSE StartGif([shown EXCEPT !.apngUrl = w.run.id], lib)

NormContinue(w, lib) ==
    IF w.run.norm.pc = "returned" THEN AfterNormalize(w, lib) ELSE w

(* lines 221-232 *)
AfterGenerate(w) ==
    LET dims == w.run.cap.dims
        targetW == IF dims.width # 0 THEN dims.width ELSE defaultDim
        targetH == IF dims.height # 0 THEN dims.height ELSE defaultDim
    IN  [w EXCEPT !.generation.progress = 60,
                  !.generation.statusMessage = "normalizing",
                  !.run.pc = "normalizing",
                  !.run.norm = processGeneratedFrames(w.run.gen.urls, targetW, targetH,
                                                      w.run.cap.config.zoom)]

GenContinue(w, lib) ==
    IF w.run.gen.pc = "returned" THEN NormContinue(AfterGenerate(w), lib)
    ELSE IF w.run.gen.pc = "threw" THEN Catch(w, w.run.gen.error)
    ELSE w

(* lines 190-219 *)
StartRun(w) ==
    LET cap == w.run.cap IN
    IF cap.imagePreview = 0 \/ cap.config.prompt = "" \/ cap.imageFile = 0
    THEN Ended(w, "noInput")                                     \* line 190
    ELSE GenContinue(
           [w EXCEPT !.abortControllerRef = w.run.id,            \* line 193
                     !.run.aborted = FALSE,
                     !.generation = [GenerationInit EXCEPT       \* lines 195-210
                                        !.isGenerating = TRUE,
                                        !.progress = 20,
                                        !.statusMessage = "generating"],
                     !.apngUrl = 0,                              \* line 200
                     !.run.pc = "generating",
                     !.run.gen = generateAnimationFrames(w.run.id,
                                     cap.config.frameCount, FALSE)],
           AllLoaded)

(* the world becomes the next state *)
Becomes(r, w) ==
    /\ apiKeyReady' = w.apiKeyReady
    /\ authError' = w.authError
    /\ generation' = w.generation
    /\ apngUrl' = w.apngUrl
    /\ abortControllerRef' = w.abortControllerRef
    /\ runs' = [runs EXCEPT ![r] = w.run]

uploadVars == <<imageFile, imagePreview, originalDimensions, pending>>
harnessVars == <<pool, norm, hIn, hOut>>

-----------------------------------------------------------------------------
(* The tasks of the event loop.                                            *)

(* the mount effect (types.ts:89-93) *)
MountCheck ==
    /\ pending.mount
    /\ pending' = [pending EXCEPT !.mount = FALSE]
    /\ apiKeyReady' = checkApiKey(env)
    /\ UNCHANGED <<env, budget, authError, imageFile, imagePreview, originalDimensions,
                   config, generation, apngUrl, abortControllerRef, runs, previewIndex,
                   harnessVars>>

(* handleImageUpload (types.ts:121-146), up to reader.readAsDataURL *)
handleImageUpload(file) ==
    /\ budget.uploads > 0
    /\ budget' = [budget EXCEPT !.uploads = @ - 1]
    /\ imageFile' = file                                         \* line 124
    /\ pending' = [pending EXCEPT !.reader = @ \cup {file}]      \* line 141
    /\ generation' = GenerationInit                              \* line 143
    /\ apngUrl' = 0                                              \* line 144
    /\ UNCHANGED <<env, apiKeyReady, authError, imagePreview, originalDimensions,
                   config, abortControllerRef, runs, previewIndex,
                   harnessVars>>

(* reader.onload (lines 128-140) *)
ReaderOnload(file) ==
    /\ file \in pending.reader
    /\ imagePreview' = file                                      \* line 130
    /\ pending' = [pending EXCEPT !.reader = @ \ {file},
                                  !.image = @ \cup {file}]       \* line 139
    /\ UNCHANGED <<env, budget, apiKeyReady, authError, imageFile, originalDimensions,
                   config, generation, apngUrl, abortControllerRef, runs, previewIndex,
                   harnessVars>>

(* img.onload (lines 133-138) *)
ImageOnload(file) ==
    /\ file \in pending.image
    /\ originalDimensions' = DimsOf(file)
    /\ pending' = [pending EXCEPT !.image = @ \ {file}]
    /\ UNCHANGED <<env, budget, apiKeyReady, authError, imageFile, imagePreview,
                   config, generation, apngUrl, abortControllerRef, runs, previewIndex,
                   harnessVars>>

(* the prompt textarea (types.ts:424) *)
TypePrompt ==
    /\ config.prompt = ""
    /\ config' = [config EXCEPT !.prompt = "walk"]
    /\ UNCHANGED <<env, budget, apiKeyReady, authError, generation, apngUrl,
                   abortControllerRef, runs, uploadVars, previewIndex,
                   harnessVars>>

(* the options of the frame-count list (types.ts:440-445) *)
FrameCountOptions == {2, 4, 6, 8, 10, 12}

(* the frame-count list (types.ts:435-446); in the sessions explored it is *)
(* set before Generate is clicked                                          *)
SelectFrameCount(n) ==
    /\ \A r \in DOMAIN runs : runs[r].pc = "idle"
    /\ n # config.frameCount
    /\ config' = [config EXCEPT !.frameCount = n]
    /\ UNCHANGED <<env, budget, apiKeyReady, authError, generation, apngUrl,
                   abortControllerRef, runs, uploadVars, previewIndex,
                   harnessVars>>

(* handleStop (types.ts:166-177); the Stop button is rendered while        *)
(* generation.isGenerating (types.ts:497-504).                             *)
handleStop ==
    /\ generation.isGenerating
    /\ abortControllerRef # 0                                    \* line 167
    /\ LET r == abortControllerRef IN
         runs' = [runs EXCEPT ![r].aborted = TRUE,               \* line 168
                              ![r].stopPhase = runs[r].pc,
                              ![r].issuedAtStop = Issued(runs[r].gen),
                              ![r].settledAtStop = InFlight(runs[r].gen) = {}]
    /\ abortControllerRef' = 0                                   \* line 169
    /\ generation' = [generation EXCEPT !.isGenerating = FALSE,  \* lines 170-175
                                        !.statusMessage = "stopped",
                                        !.error = MsgUserStopped]
    /\ UNCHANGED <<env, budget, apiKeyReady, authError, config, apngUrl,
                   uploadVars, previewIndex,
                   harnessVars>>

(* a click on Generate (types.ts:506-517): handleGenerate up to its first  *)
(* await (lines 180-183, or through line 219 when the key is ready)        *)
handleGenerate(r) ==
    /\ ~generation.isGenerating
    /\ imagePreview # 0 /\ config.prompt # ""
    /\ runs[r].pc = "idle"
    /\ \A q \in 1 .. r - 1 : runs[q].pc # "idle"
    /\ LET clicked == [World(r) EXCEPT
                          !.authError = "",                      \* line 180
                          !.run.id = r,
                          !.run.cap = [imagePreview |-> imagePreview,
                                       imageFile |-> imageFile,
                                       dims |-> originalDimensions,
                                       config |-> config]]
       IN  IF ~apiKeyReady                                       \* line 182
           THEN Becomes(r, [clicked EXCEPT !.run.pc = "selectKey"])
           ELSE Becomes(r, StartRun(clicked))
    /\ UNCHANGED <<env, budget, config, uploadVars, previewIndex,
                   harnessVars>>

(* handleApiKeySelect (types.ts:107-119) returns to line 183: the key      *)
(* dialog threw, was dismissed, or a key was selected.                     *)
KeySelected(r, how) ==
    /\ runs[r].pc = "selectKey"
    /\ how \in {"selected", "threw"} => env.aistudio # "absent"   \* line 800
    /\ env' = IF how = "selected" THEN [env EXCEPT !.aistudio = "selected"] ELSE env
    /\ LET isReady == how # "threw" /\ checkApiKey(env')         \* lines 112-117
           back == [World(r) EXCEPT
                       !.apiKeyReady = IF how = "threw" THEN apiKeyReady ELSE isReady]
       IN  IF isReady
           THEN Becomes(r, StartRun(back))
           ELSE Becomes(r, Ended([back EXCEPT !.authError = "needKey"], "needKey"))
    /\ UNCHANGED <<budget, config, uploadVars, previewIndex,
                   harnessVars>>

(* the timer of generateAnimationFrames' line 768 fires *)
TimerFires(r) ==
    /\ runs[r].pc = "generating"
    /\ runs[r].gen.pc = "stagger"
    /\ \E lib \in {AllLoaded} :
         Becomes(r, GenContinue(
            [World(r) EXCEPT !.run.gen = GenTimer(runs[r].gen, env.apiKey, runs[r].aborted)],
            lib))
    /\ UNCHANGED <<env, budget, config, uploadVars, previewIndex,
                   harnessVars>>

(* the remote call for frame k answers; the run may have ended meanwhile *)
RequestSettles(r, k, response) ==
    /\ k \in InFlight(runs[r].gen)
    /\ LET settled == [World(r) EXCEPT
                          !.run.gen = GenSettle(runs[r].gen, k, response, runs[r].aborted)]
       IN  IF runs[r].pc = "generating"
           THEN \E lib \in {AllLoaded} : Becomes(r, GenContinue(settled, lib))
           ELSE Becomes(r, settled)
    /\ UNCHANGED <<env, budget, config, uploadVars, previewIndex,
                   harnessVars>>

(* a generated frame's image loads (videoProcessor.ts:110) *)
FrameImageLoads(r) ==
    /\ runs[r].pc = "normalizing"
    /\ runs[r].norm.pc = "load"
    /\ \E img \in PoolImages(pool), ctxOk \in BOOLEAN, sourceCheckedFirst \in BOOLEAN :
         LET loaded == NormOnload(runs[r].norm, img, ctxOk, TRUE, sourceCheckedFirst)
             drawn == loaded.pc = "toBlob"
         IN  \E lib \in LibsSeenAfter(loaded) :
             /\ ~drawn => budget.faults > 0
             /\ budget' = IF drawn THEN budget ELSE [budget EXCEPT !.faults = @ - 1]
             /\ Becomes(r, NormContinue([World(r) EXCEPT !.run.norm = loaded], lib))
    /\ UNCHANGED <<env, config, uploadVars, previewIndex,
                   harnessVars>>

(* a generated frame's image fails to load (videoProcessor.ts:154) *)
FrameImageFails(r) ==
    /\ runs[r].pc = "normalizing"
    /\ runs[r].norm.pc = "load"
    /\ budget.faults > 0
    /\ budget' = [budget EXCEPT !.faults = @ - 1]
    /\ \E lib \in LibsSeenAfter(NormOnerror(runs[r].norm)) :
         Becomes(r, NormContinue([World(r) EXCEPT !.run.norm = NormOnerror(runs[r].norm)],
                                 lib))
    /\ UNCHANGED <<env, config, uploadVars, previewIndex,
                   harnessVars>>

(* toBlob calls back (videoProcessor.ts:138) *)
FrameBlobReady(r) ==
    /\ runs[r].pc = "normalizing"
    /\ runs[r].norm.pc = "toBlob"
    /\ \E blobOk \in BOOLEAN :
       \E lib \in LibsSeenAfter(NormToBlob(runs[r].norm, blobOk)) :
         /\ ~blobOk => budget.faults > 0
         /\ budget' = IF blobOk THEN budget ELSE [budget EXCEPT !.faults = @ - 1]
         /\ Becomes(r, NormContinue(
               [World(r) EXCEPT !.run.norm = NormToBlob(runs[r].norm, blobOk)], lib))
    /\ UNCHANGED <<env, config, uploadVars, previewIndex,
                   harnessVars>>

(* createGif's fetch of the worker script answers (videoProcessor.ts:      *)
(* 206-262): on success the worker URL is created, the frames are added    *)
(* and render() is called, which may throw (lines 263-266).                *)
GifWorkerFetched(r, ok, renderThrows) ==
    /\ runs[r].pc = "gifFetch"
    /\ \E lib \in ZipLibs :
         LET w == World(r)
             made == [w EXCEPT !.run.workerUrl = "live"]         \* line 209
         IN  IF ~ok THEN Becomes(r, StartZip(w, lib))
             ELSE IF renderThrows THEN Becomes(r, StartZip(made, lib))
             ELSE Becomes(r, [made EXCEPT !.run.pc = "gifRender"])
    /\ UNCHANGED <<env, budget, config, uploadVars, previewIndex,
                   harnessVars>>

(* the GIF encoder's 'finished' event (videoProcessor.ts:257-260) *)
GifFinished(r) ==
    /\ runs[r].pc = "gifRender"
    /\ \E lib \in ZipLibs :
         Becomes(r, StartZip([World(r) EXCEPT !.run.workerUrl = "revoked",
                                             !.run.gifUrl = r], lib))
    /\ UNCHANGED <<env, budget, config, uploadVars, previewIndex,
                   harnessVars>>

(* the preview is rendered (types.ts:570): generation.frames[previewIndex] *)
PreviewDisplayed ==
    /\ ~generation.isGenerating
    /\ generation.frames # None
    /\ Len(generation.frames[1]) > 0

(* a tick of the preview interval (types.ts:95-105).  The effect depends   *)
(* on generation.frames, so the interval that is running was set up with   *)
(* the frame list of the current state, and none runs without frames.      *)
PreviewTick ==
    /\ generation.frames # None                                  \* line 96
    /\ Len(generation.frames[1]) > 0
    /\ previewIndex' = (previewIndex + 1) % Len(generation.frames[1])   \* line 98
    /\ UNCHANGED <<env, budget, apiKeyReady, authError, config, generation, apngUrl,
                   abortControllerRef, runs, uploadVars, harnessVars>>

(* zip.generateAsync settles (videoProcessor.ts:287) *)
ZipGenerated(r, ok) ==
    /\ runs[r].pc = "zip"
    /\ Becomes(r, Finish(World(r), IF ok THEN r ELSE 0))
    /\ UNCHANGED <<env, budget, config, uploadVars, previewIndex,
                   harnessVars>>

-----------------------------------------------------------------------------
(* An encoder called on its own: the frames are what processGeneratedFrames *)
(* can return (ascending index, every frame with its buffer), fps what the *)
(* slider's parseInt can give.                                             *)

AscendingSeqs(n) ==
    {s \in UNION {[1 .. k -> 0 .. n - 1] : k \in 0 .. n} :
        \A a, b \in DOMAIN s : a < b => s[a] < s[b]}

FrameOf(k, dim) ==
    [blob |-> Url(-1, k), index |-> k,
     pixelBuffer |-> [src |-> Url(0, k), painted |-> TRUE],
     width |-> dim, height |-> dim]

NoArgs == [frames |-> <<>>, fps |-> 0]

InitEnc ==
    /\ AppUnused
    /\ pool = "app"
    /\ norm = NormIdle
    /\ \E s \in AscendingSeqs(MaxEncFrames), fps \in 1 .. MaxFps :
         hIn = [frames |-> [k \in DOMAIN s |-> FrameOf(s[k], defaultDim)], fps |-> fps]
    /\ hOut = NoCall

CallCreateApng ==
    /\ ~hOut.done
    /\ \E upngLoaded \in BOOLEAN, encodeThrows \in BOOLEAN :
         hOut' = createApng(hIn.frames, hIn.fps, upngLoaded, encodeThrows)
    /\ UNCHANGED <<appVars, hIn, normVars>>

NextEnc == CallCreateApng

SpecEnc == InitEnc /\ [][NextEnc]_vars

-----------------------------------------------------------------------------
(* createGif called on its own: up to MaxGifFrames frames, each with a     *)
(* buffer of its own of PixelsPerBuffer pixels.                            *)

GifPixels ==
    { Px(250, 250, 250, 0), Px(10, 20, 30, 127), Px(10, 20, 30, 128),
      Px(255, 0, 255, 200) }

GifFrameOf(k, dim) ==
    [blob |-> Url(-1, k - 1), index |-> k - 1, pixelBuffer |-> k,
     width |-> dim, height |-> dim]

InitGif ==
    /\ AppUnused
    /\ pool = "app"
    /\ norm = NormIdle
    /\ \E n \in 0 .. MaxGifFrames :
         \E heap \in [1 .. n -> [1 .. PixelsPerBuffer -> GifPixels]] :
           hIn = [frames |-> [k \in 1 .. n |-> GifFrameOf(k, defaultDim)],
                  fps |-> ConfigInit.fps, heap |-> heap]
    /\ hOut = GifIdle

CallCreateGif ==
    /\ hOut.pc = "idle"
    /\ \E gifLoaded \in BOOLEAN :
         hOut' = createGif(hIn.frames, hIn.fps, hIn.heap, gifLoaded)
    /\ UNCHANGED <<appVars, hIn, normVars>>

GifFetchAnswers ==
    /\ hOut.pc = "fetch"
    /\ \E fetchOk \in BOOLEAN, renderThrows \in BOOLEAN :
         hOut' = GifFetched(hOut, hIn.frames, hIn.fps, fetchOk, renderThrows)
    /\ UNCHANGED <<appVars, hIn, normVars>>

GifEncoderFinishes ==
    /\ hOut.pc = "render"
    /\ hOut' = GifOnFinished(hOut)
    /\ UNCHANGED <<appVars, hIn, normVars>>

NextGif == CallCreateGif \/ GifFetchAnswers \/ GifEncoderFinishes

SpecGif == InitGif /\ [][NextGif]_vars

-----------------------------------------------------------------------------
(* createZip called on its own: 0 .. MaxZipFrames frames whose original    *)
(* indices are 0,1,2,.. (nothing dropped), 1,2,3,.. (first frame dropped), *)
(* 0,2,4,.. (every other frame dropped) or 1,3,5,..                        *)

ZipFrameOf(p, offset, stride) ==
    [blob |-> Url(-1, offset + stride * (p - 1)), index |-> offset + stride * (p - 1),
     pixelBuffer |-> p, width |-> defaultDim, height |-> defaultDim]

InitZip ==
    /\ AppUnused
    /\ pool = "app"
    /\ norm = NormIdle
    /\ \E n \in 0 .. MaxZipFrames, offset \in {0, 1}, stride \in {1, 2} :
         hIn = [frames |-> [p \in 1 .. n |-> ZipFrameOf(p, offset, stride)], fps |-> ConfigInit.fps]
    /\ hOut = ZipIdle

CallCreateZip ==
    /\ hOut.pc = "idle"
    /\ \E zipLoaded \in BOOLEAN : hOut' = createZip(hIn.frames, zipLoaded)
    /\ UNCHANGED <<appVars, hIn, normVars>>

ZipGenerateSettles ==
    /\ hOut.pc = "generate"
    /\ \E ok \in BOOLEAN : hOut' = ZipOnGenerated(hOut, ok)
    /\ UNCHANGED <<appVars, hIn, normVars>>

NextZip == CallCreateZip \/ ZipGenerateSettles

SpecZip == InitZip /\ [][NextZip]_vars

-----------------------------------------------------------------------------
(* processGeneratedFrames called on its own with a list of N URLs.         *)

TargetChoices == {<<512, 512, 100>>, <<300, 400, 50>>}

InitNorm ==
    /\ AppUnused
    /\ pool = "raw"
    /\ hIn = NoArgs
    /\ hOut = NoCall
    /\ \E N \in 1 .. MaxNormFrames, t \in TargetChoices :
         norm = processGeneratedFrames([k \in 1 .. N |-> Url(0, k - 1)],
                                       t[1], t[2], t[3])

ImageLoads ==
    /\ norm.pc = "load"
    /\ \E img \in PoolImages(pool), ctxOk \in BOOLEAN, sourceCheckedFirst \in BOOLEAN :
         norm' = NormOnload(norm, img, ctxOk, TRUE, sourceCheckedFirst)
    /\ UNCHANGED <<appVars, pool, encVars>>

ImageFails ==
    /\ norm.pc = "load"
    /\ norm' = NormOnerror(norm)
    /\ UNCHANGED <<appVars, pool, encVars>>

BlobReady ==
    /\ norm.pc = "toBlob"
    /\ \E blobOk \in BOOLEAN : norm' = NormToBlob(norm, blobOk)
    /\ UNCHANGED <<appVars, pool, encVars>>

NextNorm == ImageLoads \/ ImageFails \/ BlobReady

SpecNorm == InitNorm /\ [][NextNorm]_vars


-----------------------------------------------------------------------------
(* The application: a session of one upload and one click on Generate,     *)
(* with the Stop button, the frame count selected beforehand and at most   *)
(* MaxFaults frames lost while the frames are normalized.  Reset and the   *)
(* header's key button are not clicked, fps and zoom stay as constructed.  *)

OneRun == [runs |-> 1, uploads |-> 1, files |-> 1, faults |-> MaxFaults]

Init ==
    /\ AppInit(OneRun)
    /\ pool = "app"
    /\ norm = NormIdle
    /\ hIn = NoArgs
    /\ hOut = NoCall

Next ==
    \/ MountCheck
    \/ TypePrompt
    \/ \E n \in {c \in FrameCountOptions : c <= MaxFrameCount} : SelectFrameCount(n)
    \/ \E file \in 1 .. budget.files :
         handleImageUpload(file) \/ ReaderOnload(file) \/ ImageOnload(file)
    \/ handleStop
    \/ \E r \in DOMAIN runs :
         \/ handleGenerate(r)
         \/ \E how \in {"threw", "dismissed", "selected"} : KeySelected(r, how)
         \/ TimerFires(r)
         \/ \E k \in 0 .. MaxFrameCount - 1, response \in Responses :
              RequestSettles(r, k, response)
         \/ FrameImageLoads(r)
         \/ FrameImageFails(r)
         \/ FrameBlobReady(r)
         \/ \E ok \in BOOLEAN, renderThrows \in BOOLEAN : GifWorkerFetched(r, ok, renderThrows)
         \/ GifFinished(r)
         \/ \E ok \in BOOLEAN : ZipGenerated(r, ok)

Spec == Init /\ [][Next]_vars

(* The same session with the API key configured in the build, in which up  *)
(* to MaxLostFrames generated frames are lost: with two frames asked for,  *)
(* the normalizer can return no frame at all.                              *)
KeyConfigured == [apiKey |-> TRUE, aistudio |-> "absent"]

InitLossy ==
    /\ AppInit([OneRun EXCEPT !.faults = MaxLostFrames])
    /\ env = KeyConfigured
    /\ pool = "app"
    /\ norm = NormIdle
    /\ hIn = NoArgs
    /\ hOut = NoCall

SpecLossy == InitLossy /\ [][Next]_vars

(* A session with the key configured in which the image is chosen up to   *)
(* MaxUploads times, followed from the click on Generate to the call of    *)
(* processGeneratedFrames.                                                 *)
InitStart ==
    /\ AppInit([runs |-> 1, uploads |-> MaxUploads, files |-> MaxUploads, faults |-> 0])
    /\ env = KeyConfigured
    /\ pool = "app"
    /\ norm = NormIdle
    /\ hIn = NoArgs
    /\ hOut = NoCall

NextStart ==
    \/ MountCheck
    \/ TypePrompt
    \/ \E n \in {c \in FrameCountOptions : c <= MaxFrameCount} : SelectFrameCount(n)
    \/ \E file \in 1 .. budget.files :
         handleImageUpload(file) \/ ReaderOnload(file) \/ ImageOnload(file)
    \/ \E r \in DOMAIN runs :
         \/ handleGenerate(r)
         \/ \E how \in {"threw", "dismissed", "selected"} : KeySelected(r, how)
         \/ TimerFires(r)
         \/ \E k \in 0 .. MaxFrameCount - 1, response \in Responses :
              RequestSettles(r, k, response)

SpecStart == InitStart /\ [][NextStart]_vars

(* A session with the key configured and up to MaxRuns clicks on Generate, *)
(* in which the user first selects SessionFrames frames; the runs are      *)
(* followed from the click to the call of processGeneratedFrames.          *)
InitOverlap ==
    /\ AppInit([runs |-> MaxRuns, uploads |-> 1, files |-> 1, faults |-> 0])
    /\ env = KeyConfigured
    /\ pool = "app"
    /\ norm = NormIdle
    /\ hIn = NoArgs
    /\ hOut = NoCall

NextOverlap ==
    \/ MountCheck
    \/ TypePrompt
    \/ \E n \in {c \in FrameCountOptions : c <= SessionFrames} : SelectFrameCount(n)
    \/ \E file \in 1 .. budget.files :
         handleImageUpload(file) \/ ReaderOnload(file) \/ ImageOnload(file)
    \/ handleStop
    \/ \E r \in DOMAIN runs :
         \/ config.frameCount <= SessionFrames /\ handleGenerate(r)
         \/ \E how \in {"threw", "dismissed", "selected"} : KeySelected(r, how)
         \/ TimerFires(r)
         \/ \E k \in 0 .. MaxFrameCount - 1, response \in Responses :
              RequestSettles(r, k, response)

SpecOverlap == InitOverlap /\ [][NextOverlap]_vars

(* A session with the key configured and up to MaxRuns runs of            *)
(* SessionFrames frames with the preview timer running, in which Generate  *)
(* is clicked once the key check of the mount effect has passed and Stop   *)
(* is not clicked: the runs follow one another.                            *)
InitPreview ==
    /\ AppInit([runs |-> MaxRuns, uploads |-> 1, files |-> 1, faults |-> MaxFaults])
    /\ env = KeyConfigured
    /\ pool = "app"
    /\ norm = NormIdle
    /\ hIn = NoArgs
    /\ hOut = NoCall

NextPreview ==
    \/ MountCheck
    \/ TypePrompt
    \/ \E n \in {c \in FrameCountOptions : c <= SessionFrames} : SelectFrameCount(n)
    \/ \E file \in 1 .. budget.files :
         handleImageUpload(file) \/ ReaderOnload(file) \/ ImageOnload(file)
    \/ PreviewTick
    \/ \E r \in DOMAIN runs :
         \/ apiKeyReady /\ config.frameCount <= SessionFrames /\ handleGenerate(r)
         \/ TimerFires(r)
         \/ \E k \in 0 .. MaxFrameCount - 1, response \in Responses :
              RequestSettles(r, k, response)
         \/ FrameImageLoads(r)
         \/ FrameImageFails(r)
         \/ FrameBlobReady(r)
         \/ \E ok \in BOOLEAN, renderThrows \in BOOLEAN : GifWorkerFetched(r, ok, renderThrows)
         \/ GifFinished(r)
         \/ \E ok \in BOOLEAN : ZipGenerated(r, ok)

SpecPreview == InitPreview /\ [][NextPreview]_vars

(* Progress of the encoding steps.  The fetch of the worker script and     *)
(* JSZip's generateAsync are promises of the platform and of a library     *)
(* that settle, one way or the other, and the event loop runs their        *)
(* continuations.  Nothing makes GIF.js emit 'finished': it comes from the *)
(* workers started with the fetched text, whatever that text is (the       *)
(* response's status is not looked at, videoProcessor.ts:206-207).         *)
EncodersSettle ==
    \A r \in 1 .. OneRun.runs :
      /\ WF_vars(\E ok \in BOOLEAN, renderThrows \in BOOLEAN : GifWorkerFetched(r, ok, renderThrows))
      /\ WF_vars(\E ok \in BOOLEAN : ZipGenerated(r, ok))

SpecLive == Init /\ [][Next]_vars /\ EncodersSettle

-----------------------------------------------------------------------------
(* Properties of a run of the application.                                 *)

Started(r) == runs[r].pc \notin {"idle", "selectKey"} /\ runs[r].end \notin {"needKey", "noInput"}
EncodingPcs == {"gifFetch", "gifRender", "zip"}
NoArtifacts ==
    /\ apngUrl = 0
    /\ generation.videoUrl = 0 /\ generation.gifUrl = 0 /\ generation.zipUrl = 0
    /\ generation.frames = None
StoppedStatus(g) ==
    ~g.isGenerating /\ g.statusMessage = "stopped" /\ g.error = MsgUserStopped
FailedRequests(g) == {k \in 0 .. g.count - 1 : Rejected(ReqOf(g, k))}

(* C1: generateAnimationFrames is all-or-nothing.  When it returns, it     *)
(* returns exactly count results, the result at position i is the result   *)
(* of the request for frame i whatever the order in which the requests     *)
(* completed, and every request succeeded; when a request has failed the   *)
(* call has not returned a list.                                           *)
C1_AllOrNothingInIndexOrder ==
    \A r \in DOMAIN runs :
      LET g == runs[r].gen IN
        /\ g.pc = "returned" =>
             /\ Len(g.urls) = g.count
             /\ \A i \in 0 .. g.count - 1 : g.urls[i + 1] = Url(r, i)
             /\ \A i \in 0 .. g.count - 1 : ReqOf(g, i) = "ok"
        /\ FailedRequests(g) # {} => g.pc # "returned" /\ runs[r].norm = NormIdle

(* a six-frame call returned although the last batch completed out of order *)
C1_Witness ==
    \E r \in DOMAIN runs :
      /\ runs[r].gen.pc = "returned"
      /\ runs[r].gen.count = 6
      /\ runs[r].gen.order = <<5, 3, 4>>

(* C2 (as the specification states it): with count = 6, once the user has  *)
(* stopped the run after the three requests of batch 1 settled, no request *)
(* for frames 3..5 is issued and the run does not end Failed.              *)
C2_NoRequestAfterStopBetweenBatches ==
    \A r \in DOMAIN runs :
      (/\ runs[r].gen.count = 6
       /\ runs[r].stopPhase = "generating"
       /\ runs[r].issuedAtStop = {0, 1, 2}
       /\ runs[r].settledAtStop)
      => /\ Issued(runs[r].gen) = {0, 1, 2}
         /\ runs[r].end \notin {"generic", "safety", "keyLost"}

(* C3 (as the specification states it): after a stop in the Generating     *)
(* phase, no step of that run changes the status the stop handler wrote.   *)
C3_StopStatusNeverOverwritten ==
    [][\A r \in DOMAIN runs :
         (/\ env.apiKey
          /\ runs[r].stopPhase = "generating"
          /\ StoppedStatus(generation)
          /\ runs'[r] # runs[r])
         => StoppedStatus(generation')]_vars

(* C4 (as the specification states it): a stop issued while the run is     *)
(* Normalizing or Encoding leaves the run state as it was.                 *)
C4_StopIgnoredAfterGenerating ==
    [][\A r \in DOMAIN runs :
         (/\ runs[r].pc \in {"normalizing"} \cup EncodingPcs
          /\ ~runs[r].aborted
          /\ runs'[r].aborted)
         => generation' = generation]_vars

(* the run's state is Cancelled or Failed *)
Terminal == ~generation.isGenerating /\ (generation.error # NoError \/ authError = "keyLost")

(* C5 (as the specification states it): once the state is Cancelled or     *)
(* Failed, no step of that run moves it to Normalizing, Encoding or Done,  *)
(* raises progress or publishes an artifact.                               *)
C5_TerminalStatesStay ==
    [][\A r \in DOMAIN runs :
         (Started(r) /\ Terminal /\ runs'[r] # runs[r])
         => /\ generation'.progress <= generation.progress
            /\ generation'.statusMessage \notin {"normalizing", "packaging", "done"}
               \/ generation'.statusMessage = generation.statusMessage
            /\ generation'.frames = generation.frames
            /\ generation'.videoUrl = generation.videoUrl
            /\ generation'.gifUrl = generation.gifUrl
            /\ generation'.zipUrl = generation.zipUrl
            /\ apngUrl' = apngUrl]_vars

(* C6 (as the specification states it): when any request of the run was    *)
(* refused for safety, the run ends Failed with the safety category and    *)
(* without artifacts.                                                      *)
C6_AnyRefusalEndsInSafetyCategory ==
    \A r \in DOMAIN runs :
      (/\ runs[r].pc = "ended"
       /\ \E k \in 0 .. runs[r].gen.count - 1 : ReqOf(runs[r].gen, k) = "finishSAFETY")
      => /\ runs[r].end = "safety"
         /\ generation.error = MsgSafetyFilter
         /\ NoArtifacts

(* C6, amended: when the failure generateAnimationFrames throws (the first *)
(* rejection Promise.all observes) is a safety refusal, the run ends       *)
(* Failed with the safety category, whatever the other requests did; and   *)
(* whenever a request of the run has failed, no artifact is produced.      *)
C6_FirstObservedRefusalEndsInSafetyCategory ==
    \A r \in DOMAIN runs :
      /\ (runs[r].pc = "ended" /\ Includes(runs[r].gen.error, "SAFETY"))
         => /\ runs[r].end = "safety"
            /\ ~generation.isGenerating
            /\ generation.error = MsgSafetyFilter
      /\ FailedRequests(runs[r].gen) # {} => NoArtifacts

(* a run ended in the safety category although another request of the     *)
(* same batch failed for another reason                                    *)
C6_Witness ==
    \E r \in DOMAIN runs :
      /\ runs[r].end = "safety"
      /\ generation.error = MsgSafetyFilter
      /\ \E k \in 0 .. runs[r].gen.count - 1 :
           ReqOf(runs[r].gen, k) \in {"noData", "noCandidates", "textRefusal", "finishMAX_TOKENS"}

-----------------------------------------------------------------------------
(* Claims about processGeneratedFrames, checked under SpecNorm.            *)

KeptPositions == {k \in 0 .. Len(norm.fate) - 1 : norm.fate[k + 1] = "kept"}

(* C8: for every list of N raw frames and every pattern of decode failures *)
(* and empty frames, the frames processGeneratedFrames has collected are   *)
(* at most N, their index values are strictly ascending and lie in         *)
(* 0..N-1; a dropped frame removes only itself: the survivors are exactly  *)
(* the inputs that were kept, each under its original index and with its   *)
(* own content, and when the call returns every input has been processed.  *)
C8_AscendingSubsequence ==
    LET f == norm.frames
        N == Len(norm.urls)
    IN  /\ Len(f) <= N
        /\ \A k \in DOMAIN f : f[k].index \in 0 .. N - 1
        /\ \A a, b \in DOMAIN f : a < b => f[a].index < f[b].index
        /\ {f[k].index : k \in DOMAIN f} = KeptPositions
        /\ \A k \in DOMAIN f : f[k].pixelBuffer.src = norm.urls[f[k].index + 1]
        /\ norm.pc = "returned" => Len(norm.fate) = N

(* a frame is dropped and the one after it survives under index 1 *)
C8_Witness ==
    /\ norm.pc = "returned"
    /\ Len(norm.urls) >= 2
    /\ norm.fate[1] \in {"decodeError", "empty"}
    /\ norm.fate[2] = "kept"
    /\ Len(norm.frames) = 1
    /\ norm.frames[1].index = 1

(* every pixel outside the safety crop has R, G and B in 240..255 *)
AllNearWhite(img) ==
    \A x \in 0 .. img.w - 1, y \in 0 .. img.h - 1 :
        InSafetyCrop(img, x, y)
        \/ LET px == PixelAt(img, x, y)
           IN  px.r >= 240 /\ px.g >= 240 /\ px.b >= 240

(* C9: a raw frame whose pixels outside the edge margin all have R, G and  *)
(* B in 240..255 is dropped, and no normalized frame is made from a crop   *)
(* of zero width or zero height: the scale computation never divides by    *)
(* zero.                                                                   *)
C9_BlankDroppedNoZeroCrop ==
    /\ \A k \in DOMAIN norm.fate :
         (k = Len(norm.fate) /\ norm.lastImg # None /\ AllNearWhite(norm.lastImg[1]))
            => norm.fate[k] = "empty"
    /\ (norm.pc = "toBlob" /\ norm.lastImg # None)
            => ~AllNearWhite(norm.lastImg[1])
    /\ norm.pc = "toBlob" => norm.lastCrop.width > 0 /\ norm.lastCrop.height > 0
    /\ ~norm.divByZero

-----------------------------------------------------------------------------
(* Claims about createApng, checked under SpecEnc.                         *)

(* d is 1000/fps rounded to the nearest integer, halves up *)
IsRounded(d, fps) == 2 * fps * d <= 2000 + fps /\ 2000 + fps < 2 * fps * (d + 1)

(* C10: for every non-empty frame sequence and every positive fps the      *)
(* encoder gets one buffer per frame, in sequence order, and as many       *)
(* delays, each round(1000/fps) (125 for fps = 8); for an empty sequence   *)
(* createApng throws an explicit error and the encoder is not called.      *)
C10_ApngBuffersAndDelays ==
    LET f == hIn.frames IN
    /\ hOut.called =>
         /\ Len(f) > 0
         /\ Len(hOut.imgs) = Len(f)
         /\ \A k \in DOMAIN f : hOut.imgs[k] = f[k].pixelBuffer
         /\ Len(hOut.dels) = Len(f)
         /\ \A k \in DOMAIN hOut.dels : IsRounded(hOut.dels[k], hIn.fps)
         /\ hIn.fps = 8 => \A k \in DOMAIN hOut.dels : hOut.dels[k] = 125
    /\ (hOut.done /\ Len(f) > 0 /\ hOut.upngLoaded) => hOut.called
    /\ (hOut.done /\ Len(f) = 0) =>
         /\ hOut.threw
         /\ hOut.error \in {"No frames to encode", "UPNG library not loaded"}
         /\ ~hOut.called

(* three frames, the middle one of the four missing, at an fps whose delay *)
(* rounds up *)
C10_Witness ==
    /\ hOut.called
    /\ ~hOut.threw
    /\ Len(hIn.frames) = 3
    /\ hIn.frames[2].index = 2
    /\ hIn.fps = 7
    /\ hOut.dels = <<143, 143, 143>>

-----------------------------------------------------------------------------
(* Claims about createGif, checked under SpecGif.                          *)

Magenta == Px(255, 0, 255, 255)

(* C11: chroma-keying maps every pixel of every frame: a pixel with alpha  *)
(* below 128 becomes exactly (255,0,255,255); a pixel with alpha 128 or    *)
(* more keeps its R, G and B and gets alpha 255.  Every frame is added.    *)
C11_ChromaKeyPerPixel ==
    /\ hOut.pc \in {"render", "resolved"} => Len(hOut.added) = Len(hIn.frames)
    /\ \A k \in DOMAIN hOut.added :
         LET src == hIn.heap[hIn.frames[k].pixelBuffer]
             out == hOut.heap[hOut.added[k].data]
         IN  /\ DOMAIN out = DOMAIN src
             /\ \A i \in DOMAIN src :
                  /\ src[i].a < 128 => out[i] = Magenta
                  /\ src[i].a >= 128 =>
                       out[i] = [r |-> src[i].r, g |-> src[i].g, b |-> src[i].b, a |-> 255]

(* a GIF was encoded from two frames, the first with a pixel of alpha 127  *)
(* next to one of alpha 128                                                *)
C11_Witness ==
    /\ hOut.pc = "resolved"
    /\ Len(hOut.added) = 2
    /\ hIn.heap[1] = <<Px(10, 20, 30, 127), Px(10, 20, 30, 128)>>
    /\ hOut.heap[hOut.added[1].data] = <<Magenta, Px(10, 20, 30, 255)>>

(* the encoder input createApng builds, read through the heap *)
ApngInput(frames, heap) ==
    LET buffers == ApngBuffers(frames) IN [k \in DOMAIN buffers |-> heap[buffers[k]]]

(* C18: createGif leaves every frame's pixelBuffer as it was, whether it   *)
(* resolves or rejects, so createApng gets the same encoder input after    *)
(* createGif as before it.                                                 *)
C18_GifLeavesBuffersUnchanged ==
    hOut.pc # "idle" =>
      /\ \A k \in DOMAIN hIn.frames :
           hOut.heap[hIn.frames[k].pixelBuffer] = hIn.heap[hIn.frames[k].pixelBuffer]
      /\ ApngInput(hIn.frames, hOut.heap) = ApngInput(hIn.frames, hIn.heap)

(* createGif rejected after it had keyed both frames, one of which has     *)
(* pixels the keying changes                                               *)
C18_Witness ==
    /\ hOut.pc = "rejected"
    /\ hOut.error = "render"
    /\ Len(hOut.added) = 2
    /\ hOut.heap[hOut.added[2].data] # hIn.heap[2]
    /\ hOut.heap[2] = hIn.heap[2]

(* C19 (as the specification states it): whenever createGif has created    *)
(* the worker's object URL and then resolved or rejected, the URL has been *)
(* revoked.                                                                *)
C19_WorkerUrlRevokedOnEveryExit ==
    (hOut.pc \in {"resolved", "rejected"} /\ hOut.workerUrl # "none")
       => hOut.workerUrl = "revoked"

-----------------------------------------------------------------------------
(* Claims about createZip, checked under SpecZip.                          *)

(* frame_NN.png with NN the two decimal digits of n *)
TwoDigitName(n) == <<"frame_", <<n \div 10, n % 10>>, ".png">>

(* C14: for k <= 99 frames, whatever their original indices, createZip     *)
(* writes exactly k files under frames/; the file at 0-based position p is *)
(* frame_NN.png with NN = p + 1 in two digits and carries that frame's     *)
(* blob; the names are pairwise distinct and run from frame_01 to frame_k. *)
C14_ZipNamesContiguous ==
    (hOut.pc \in {"generate", "resolved"} /\ Len(hIn.frames) <= 99) =>
      /\ Len(hOut.files) = Len(hIn.frames)
      /\ Cardinality(FolderNames(hOut.files)) = Len(hIn.frames)
      /\ FolderNames(hOut.files) = {TwoDigitName(n) : n \in 1 .. Len(hIn.frames)}
      /\ \A k \in DOMAIN hOut.files :
           /\ hOut.files[k].folder = "frames"
           /\ hOut.files[k].name = TwoDigitName(k)
           /\ hOut.files[k].data = hIn.frames[k].blob

(* 99 frames whose original indices are 1,3,5,.. were zipped: the last    *)
(* file is frame_99.png although its frame's index is 197                  *)
C14_Witness ==
    /\ hOut.pc = "resolved"
    /\ Len(hOut.files) = 99
    /\ hIn.frames[99].index = 197
    /\ hOut.files[99].name = <<"frame_", <<9, 9>>, ".png">>
    /\ hOut.files[1].name = <<"frame_", <<0, 1>>, ".png">>

-----------------------------------------------------------------------------
(* Claims about processFrameData, checked under SpecNorm on the image the  *)
(* normalizer processed last.                                             *)

(* closer than floor(5%) of the width or height to one of the four edges *)
EdgeBand(img, x, y) ==
    \/ x < marginX(img)
    \/ img.w - 1 - x < marginX(img)
    \/ y < marginY(img)
    \/ img.h - 1 - y < marginY(img)

(* the pixels whose alpha after processFrameData's loop is above 20 *)
SubjectPixels(img) ==
    {p \in (0 .. img.w - 1) \X (0 .. img.h - 1) : CleanedAlpha(img, p[1], p[2]) > alphaFloor}

(* C16 (as the specification states it): after processFrameData every      *)
(* pixel in the edge band of any of the four edges has alpha 0, and none   *)
(* of them is counted into the bounding box.                               *)
C16_EdgeCropOnAllFourEdges ==
    norm.lastImg # None =>
      LET img == norm.lastImg[1]
      IN  \A x \in 0 .. img.w - 1, y \in 0 .. img.h - 1 :
            EdgeBand(img, x, y) =>
              /\ CleanedAlpha(img, x, y) = 0
              /\ <<x, y>> \notin CharacterPixels(img)

(* C17 (as the specification states it): the crop is the minimal rectangle *)
(* around the pixels with resulting alpha > 20: it starts at their least   *)
(* column and row, its width and height are those of that rectangle, and   *)
(* every such pixel lies inside it.                                        *)
C17_CropIsMinimalRectangle ==
    (norm.lastImg # None /\ norm.lastCrop.ok) =>
      LET S == SubjectPixels(norm.lastImg[1])
          c == norm.lastCrop
      IN  /\ c.minX = SetMin({p[1] : p \in S})
          /\ c.minY = SetMin({p[2] : p \in S})
          /\ c.width = SetMax({p[1] : p \in S}) - SetMin({p[1] : p \in S}) + 1
          /\ c.height = SetMax({p[2] : p \in S}) - SetMin({p[2] : p \in S}) + 1
          /\ \A p \in S : /\ c.minX <= p[1] /\ p[1] < c.minX + c.width
                          /\ c.minY <= p[2] /\ p[2] < c.minY + c.height

-----------------------------------------------------------------------------
(* Claims about the batching of generateAnimationFrames, checked under Spec. *)

(* the batch of the loop of types.ts:760 that request k belongs to *)
BatchOf(k) == k \div batchSize

(* C15: within one call of generateAnimationFrames at most 3 requests are  *)
(* in flight at any time, and whenever a request of a batch has been       *)
(* issued every request of every earlier batch has settled; a call in      *)
(* which a request failed issues nothing of a later batch.                 *)
C15_BoundedBatchesInSequence ==
    \A r \in DOMAIN runs :
      LET g == runs[r].gen IN
        /\ Cardinality(InFlight(g)) <= 3
        /\ \A k \in Issued(g), j \in 0 .. g.count - 1 :
             BatchOf(j) < BatchOf(k) => ReqOf(g, j) \notin {"none", "pending"}
        /\ \A k \in Issued(g), j \in 0 .. g.count - 1 :
             BatchOf(j) < BatchOf(k) => ReqOf(g, j) = "ok"

(* the second batch of a six-frame run has its three requests in flight    *)
(* after the three of the first batch all answered                        *)
C15_Witness ==
    \E r \in DOMAIN runs :
      /\ runs[r].gen.count = 6
      /\ InFlight(runs[r].gen) = {3, 4, 5}
      /\ \A j \in 0 .. 2 : ReqOf(runs[r].gen, j) = "ok"

-----------------------------------------------------------------------------
(* Claims about the encoding steps of handleGenerate.                      *)

(* no APNG, GIF or ZIP URL is held by the App state *)
NoEncodedArtifact ==
    /\ apngUrl = 0
    /\ generation.videoUrl = 0 /\ generation.gifUrl = 0 /\ generation.zipUrl = 0

(* C13: the GIF and the ZIP step are entered only after createApng has     *)
(* returned without throwing; when createApng throws, also because the     *)
(* normalizer returned no frame, the run ends through the catch block with *)
(* an error shown and no APNG, GIF or ZIP URL published, and the GIF       *)
(* worker and the archive were never touched.                              *)
C13_ApngFailureFatalAndGating ==
    \A r \in DOMAIN runs :
      LET run == runs[r] IN
        /\ (run.pc \in EncodingPcs \/ run.workerUrl # "none" \/ run.gifUrl # 0
               \/ run.zip # <<>> \/ run.end = "done")
             => (run.apng.done /\ ~run.apng.threw)
        /\ (run.norm.pc = "returned" /\ Len(run.norm.frames) = 0) => run.apng.threw
        /\ run.apng.threw =>
             /\ run.pc = "ended" /\ run.end = "generic"
             /\ ~generation.isGenerating
             /\ generation.error = <<run.apng.error>>
             /\ NoEncodedArtifact
             /\ run.workerUrl = "none" /\ run.gifUrl = 0 /\ run.zip = <<>>

(* both frames of a two-frame run were lost in normalization, createApng   *)
(* was reached with every library loaded and threw on the empty list       *)
C13_Witness ==
    \E r \in DOMAIN runs :
      /\ runs[r].gen.count = 2
      /\ Len(runs[r].gen.urls) = 2
      /\ runs[r].norm.pc = "returned"
      /\ Len(runs[r].norm.frames) = 0
      /\ runs[r].apng.threw /\ runs[r].apng.upngLoaded
      /\ runs[r].end = "generic"
      /\ NoEncodedArtifact

(* C12 (as the specification states it): whenever createApng has          *)
(* succeeded the run eventually reaches Done with the APNG published,      *)
(* whatever happens to the GIF and the ZIP step.                           *)
C12_EncoderFailureStillDone ==
    \A r \in 1 .. OneRun.runs :
      (runs[r].apng.done /\ ~runs[r].apng.threw)
         ~> (runs[r].end = "done" /\ generation.videoUrl = r)

(* C20 (as the specification states it): the target dimensions a run      *)
(* hands to processGeneratedFrames are the natural dimensions of the image *)
(* whose data the run sent to the generator, or 512x512.                   *)
C20_TargetIsSentImagesSize ==
    \A r \in DOMAIN runs :
      runs[r].norm.pc # "idle" =>
        LET target == [width |-> runs[r].norm.targetWidth,
                       height |-> runs[r].norm.targetHeight]
        IN  \/ target = DimsOf(runs[r].cap.imagePreview)
            \/ target = [width |-> defaultDim, height |-> defaultDim]

(* C22 (as the specification states it): the image data and the MIME type *)
(* a run passes to generateAnimationFrames are those of one uploaded file. *)
C22_BytesAndMimeOfOneFile ==
    \A r \in DOMAIN runs :
      runs[r].gen.pc # "idle" => runs[r].cap.imagePreview = runs[r].cap.imageFile

-----------------------------------------------------------------------------
(* Claims about sessions with several runs.                                *)

(* the runs that have a generation request in flight *)
RunsInFlight == {r \in DOMAIN runs : InFlight(runs[r].gen) # {}}

RECURSIVE InFlightUpTo(_)
InFlightUpTo(r) ==
    IF r = 0 THEN 0 ELSE Cardinality(InFlight(runs[r].gen)) + InFlightUpTo(r - 1)

(* C21 (as the specification states it): at any time the requests in       *)
(* flight belong to at most one run, so that no more than 3 are in flight  *)
(* in the whole session.                                                   *)
C21_RequestsOfOneRunAtATime ==
    /\ Cardinality(RunsInFlight) <= 1
    /\ InFlightUpTo(Len(runs)) <= batchSize

(* C23 (as the specification states it): whenever the preview is          *)
(* displayed, previewIndex is a position of the current frame list.        *)
C23_PreviewIndexInRange ==
    PreviewDisplayed =>
      (0 <= previewIndex /\ previewIndex < Len(generation.frames[1]))

=============================================================================
